---- MODULE Spec2Model ----
(***************************************************************************)
(* The conversation-state machine of the AI requirements gatherer          *)
(* (src/src/App.tsx) and the intermediary endpoint (src/server/index.js).  *)
(*                                                                         *)
(* A JavaScript string is a sequence of one-character strings, so that     *)
(* includes, toLowerCase, trim, split and + are computed on characters.    *)
(* Message timestamps (new Date()) are not part of the model.              *)
(***************************************************************************)
EXTENDS Integers, Sequences, FiniteSets, TLC

\* Bound on the number of user messages submitted in one session.
MaxTurns == 3

(***************************************************************************)
(* JavaScript string primitives used by App.tsx                            *)
(***************************************************************************)

\* String.prototype.toLowerCase on one character.
LowerChar(c) ==
    CASE c = "A" -> "a" [] c = "B" -> "b" [] c = "C" -> "c" [] c = "D" -> "d"
      [] c = "E" -> "e" [] c = "F" -> "f" [] c = "G" -> "g" [] c = "H" -> "h"
      [] c = "I" -> "i" [] c = "J" -> "j" [] c = "K" -> "k" [] c = "L" -> "l"
      [] c = "M" -> "m" [] c = "N" -> "n" [] c = "O" -> "o" [] c = "P" -> "p"
      [] c = "Q" -> "q" [] c = "R" -> "r" [] c = "S" -> "s" [] c = "T" -> "t"
      [] c = "U" -> "u" [] c = "V" -> "v" [] c = "W" -> "w" [] c = "X" -> "x"
      [] c = "Y" -> "y" [] c = "Z" -> "z" [] OTHER -> c

\* input.toLowerCase()
toLowerCase(s) == [i \in 1..Len(s) |-> LowerChar(s[i])]

\* s.includes(k): k occurs in s as a contiguous substring.
includes(s, k) ==
    \E i \in 1..(Len(s) - Len(k) + 1) :
        \A j \in 1..Len(k) : s[i + j - 1] = k[j]

\* White space removed by String.prototype.trim.
IsSpace(c) == c \in {" ", "\t", "\n"}

RECURSIVE trimStart(_)
trimStart(s) ==
    IF s # <<>> /\ IsSpace(Head(s)) THEN trimStart(Tail(s)) ELSE s

RECURSIVE trimEnd(_)
trimEnd(s) ==
    IF s # <<>> /\ IsSpace(s[Len(s)]) THEN trimEnd(SubSeq(s, 1, Len(s) - 1)) ELSE s

\* A mutation of trim: the text is returned as it is.
trimNothing(s) == s

\* s.trim()
trim(s) == trimEnd(trimStart(s))

\* text.split(/[.!?]+/): the pieces between maximal runs of . ! ?
IsSentenceEnd(c) == c \in {".", "!", "?"}

RECURSIVE splitFrom(_, _, _)
splitFrom(s, i, cur) ==
    IF i > Len(s) THEN <<cur>>
    ELSE IF IsSentenceEnd(s[i])
         THEN IF i > 1 /\ IsSentenceEnd(s[i - 1])
              THEN splitFrom(s, i + 1, cur)
              ELSE <<cur>> \o splitFrom(s, i + 1, <<>>)
         ELSE splitFrom(s, i + 1, Append(cur, s[i]))

splitSentences(s) == splitFrom(s, 1, <<>>)

\* JavaScript null, and truthiness of a string-or-null value.
\* JavaScript null (no string is equal to it), and the truthiness of a
\* string-or-null value: neither null nor ''.
Null == <<"null">>
Truthy(v) == v # Null /\ v # <<>>

(***************************************************************************)
(* aiKnowledge and the other fixed word lists                              *)
(***************************************************************************)

\* aiKnowledge.projectTypes, in enumeration (insertion) order.
projectTypes == <<
  [type |-> <<"w","e","b"," ","a","p","p","l","i","c","a","t","i","o","n">>,
   keywords |-> << <<"w","e","b","s","i","t","e">>, <<"w","e","b"," ","a","p","p">>, <<"p","o","r","t","a","l">>, <<"d","a","s","h","b","o","a","r","d">>,
                   <<"c","m","s">>, <<"e","-","c","o","m","m","e","r","c","e">>, <<"s","a","a","s">> >>],
  [type |-> <<"m","o","b","i","l","e"," ","a","p","p","l","i","c","a","t","i","o","n">>,
   keywords |-> << <<"m","o","b","i","l","e"," ","a","p","p">>, <<"i","o","s">>, <<"a","n","d","r","o","i","d">>, <<"s","m","a","r","t","p","h","o","n","e">>,
                   <<"t","a","b","l","e","t">>, <<"n","a","t","i","v","e">>, <<"h","y","b","r","i","d">> >>],
  [type |-> <<"a","p","i","/","m","i","c","r","o","s","e","r","v","i","c","e">>,
   keywords |-> << <<"a","p","i">>, <<"r","e","s","t">>, <<"g","r","a","p","h","q","l">>, <<"m","i","c","r","o","s","e","r","v","i","c","e">>,
                   <<"b","a","c","k","e","n","d">>, <<"i","n","t","e","g","r","a","t","i","o","n">> >>],
  [type |-> <<"d","a","t","a","/","a","n","a","l","y","t","i","c","s">>,
   keywords |-> << <<"d","a","t","a">>, <<"a","n","a","l","y","t","i","c","s">>, <<"m","l">>, <<"a","i">>, <<"d","a","s","h","b","o","a","r","d">>,
                   <<"r","e","p","o","r","t","i","n","g">>, <<"e","t","l">> >>] >>

\* aiKnowledge.contextClues, in enumeration order.
contextClueWords == <<
  [category |-> <<"u","r","g","e","n","c","y">>,
   keywords |-> << <<"a","s","a","p">>, <<"u","r","g","e","n","t">>, <<"d","e","a","d","l","i","n","e">>, <<"l","a","u","n","c","h"," ","d","a","t","e">>,
                   <<"t","i","m","e","-","s","e","n","s","i","t","i","v","e">> >>],
  [category |-> <<"b","u","d","g","e","t">>,
   keywords |-> << <<"b","u","d","g","e","t">>, <<"c","o","s","t">>, <<"e","x","p","e","n","s","i","v","e">>, <<"c","h","e","a","p">>,
                   <<"f","u","n","d","i","n","g">>, <<"i","n","v","e","s","t","m","e","n","t">> >>],
  [category |-> <<"s","c","a","l","e">>,
   keywords |-> << <<"u","s","e","r","s">>, <<"c","o","n","c","u","r","r","e","n","t">>, <<"t","r","a","f","f","i","c">>, <<"l","o","a","d">>,
                   <<"s","c","a","l","a","b","i","l","i","t","y">>, <<"g","r","o","w","t","h">> >>],
  [category |-> <<"c","o","m","p","l","i","a","n","c","e">>,
   keywords |-> << <<"g","d","p","r">>, <<"h","i","p","a","a">>, <<"p","c","i">>, <<"c","o","m","p","l","i","a","n","c","e">>,
                   <<"r","e","g","u","l","a","t","i","o","n">>, <<"s","e","c","u","r","i","t","y">> >>],
  [category |-> <<"i","n","t","e","g","r","a","t","i","o","n">>,
   keywords |-> << <<"i","n","t","e","g","r","a","t","e">>, <<"c","o","n","n","e","c","t">>, <<"a","p","i">>, <<"t","h","i","r","d","-","p","a","r","t","y">>,
                   <<"e","x","i","s","t","i","n","g"," ","s","y","s","t","e","m">> >>] >>

\* techTerms of analyzeUserInput.
techTerms == << <<"d","a","t","a","b","a","s","e">>, <<"c","l","o","u","d">>, <<"a","w","s">>, <<"a","z","u","r","e">>, <<"d","o","c","k","e","r">>,
                <<"k","u","b","e","r","n","e","t","e","s">>, <<"r","e","a","c","t">>, <<"n","o","d","e",".","j","s">>, <<"p","y","t","h","o","n">>, <<"j","a","v","a">> >>

\* timelineWords of extractRequirementsFromInput.
timelineWords == << <<"w","e","e","k">>, <<"m","o","n","t","h">>, <<"y","e","a","r">>, <<"d","e","a","d","l","i","n","e">>, <<"l","a","u","n","c","h">> >>

\* A mutation of someIncluded: every keyword has to occur.
everyIncluded(s, words) == \A i \in 1..Len(words) : includes(s, words[i])

\* array.some(pred) over a sequence of keywords.
someIncluded(s, words) == \E i \in 1..Len(words) : includes(s, words[i])

(***************************************************************************)
(* Text analyzer                                                           *)
(***************************************************************************)

\* extractContext: the first sentence whose lower-cased text has the keyword,
\* or '' when there is none.
extractContext(text, keyword) ==
    LET sentences == splitSentences(text)
        hits == {i \in 1..Len(sentences) : includes(toLowerCase(sentences[i]), keyword)}
    IN  IF hits = {} THEN <<>>
        ELSE sentences[CHOOSE i \in hits : \A j \in hits : i <= j]

\* A mutation of detectProjectType: a type once assigned is kept.
RECURSIVE detectProjectTypeFirst(_, _, _)
detectProjectTypeFirst(lowercaseInput, i, acc) ==
    IF i > Len(projectTypes) THEN acc
    ELSE detectProjectTypeFirst(lowercaseInput, i + 1,
            IF acc = Null /\ someIncluded(lowercaseInput, projectTypes[i].keywords)
            THEN projectTypes[i].type ELSE acc)

\* The forEach over projectTypes: every matching entry assigns
\* analysis.projectType, so the last matching entry's type remains.
RECURSIVE detectProjectType(_, _, _)
detectProjectType(lowercaseInput, i, acc) ==
    IF i > Len(projectTypes) THEN acc
    ELSE detectProjectType(lowercaseInput, i + 1,
            IF someIncluded(lowercaseInput, projectTypes[i].keywords)
            THEN projectTypes[i].type ELSE acc)

\* The keywords of one clue category that occur, in list order, as clue records.
RECURSIVE cluesOfCategory(_, _, _, _)
cluesOfCategory(input, lowercaseInput, entry, i) ==
    IF i > Len(entry.keywords) THEN <<>>
    ELSE (IF includes(lowercaseInput, entry.keywords[i])
          THEN << [category |-> entry.category,
                   keyword |-> entry.keywords[i],
                   context |-> extractContext(input, entry.keywords[i])] >>
          ELSE <<>>)
         \o cluesOfCategory(input, lowercaseInput, entry, i + 1)

RECURSIVE detectContextClues(_, _, _)
detectContextClues(input, lowercaseInput, c) ==
    IF c > Len(contextClueWords) THEN <<>>
    ELSE cluesOfCategory(input, lowercaseInput, contextClueWords[c], 1)
         \o detectContextClues(input, lowercaseInput, c + 1)

RECURSIVE detectTechnicalTerms(_, _)
detectTechnicalTerms(lowercaseInput, i) ==
    IF i > Len(techTerms) THEN <<>>
    ELSE (IF includes(lowercaseInput, techTerms[i]) THEN <<techTerms[i]>> ELSE <<>>)
         \o detectTechnicalTerms(lowercaseInput, i + 1)

\* A mutation of analyzeUserInput: the analysis starts from the first
\* project type instead of null.
analyzeUserInputDefaulted(input) ==
    LET lowercaseInput == toLowerCase(input)
    IN  [projectType    |-> detectProjectType(lowercaseInput, 1, projectTypes[1].type),
         detectedNeeds  |-> <<>>,
         contextClues   |-> detectContextClues(input, lowercaseInput, 1),
         technicalTerms |-> detectTechnicalTerms(lowercaseInput, 1),
         businessNeeds  |-> <<>>]

analyzeUserInput(input) ==
    LET lowercaseInput == toLowerCase(input)
    IN  [projectType    |-> detectProjectType(lowercaseInput, 1, Null),
         detectedNeeds  |-> <<>>,
         contextClues   |-> detectContextClues(input, lowercaseInput, 1),
         technicalTerms |-> detectTechnicalTerms(lowercaseInput, 1),
         businessNeeds  |-> <<>>]

(***************************************************************************)
(* Requirements extractor, context merge and phase controller              *)
(***************************************************************************)

\* A mutation of Put: a key that is present keeps its value.
PutIfAbsent(obj, key, v) ==
    [k \in DOMAIN obj \cup {key} |-> IF k \in DOMAIN obj THEN obj[k] ELSE v]

\* obj.key = v on a copy of obj: the key is added when it was absent.
Put(obj, key, v) == [k \in DOMAIN obj \cup {key} |-> IF k = key THEN v ELSE obj[k]]

\* { ...a, ...b }: the keys of both, b's values where both have the key.
Spread(a, b) == [k \in DOMAIN a \cup DOMAIN b |-> IF k \in DOMAIN b THEN b[k] ELSE a[k]]

\* Object.keys(obj)
Keys(obj) == DOMAIN obj

\* {}
EmptyObject == [k \in {} |-> <<>>]

\* A mutation of newReqsOf: the new record starts empty.
newReqsEmpty(currentReqs) == EmptyObject

\* const newReqs = { ...currentReqs }
newReqsOf(currentReqs) == Spread(EmptyObject, currentReqs)

\* A mutation of featuresAppended: the field is overwritten like the others.
featuresOverwritten(existing, input) == input

\* (newReqs.features || '') + ' ' + input
featuresAppended(existing, input) == existing \o <<" ">> \o input

extractRequirementsFromInput(input, analysis, currentReqs) ==
    LET lower == toLowerCase(input)
        newReqs0 == newReqsOf(currentReqs)
        newReqs1 == IF includes(lower, <<"u","s","e","r">>) \/ includes(lower, <<"c","u","s","t","o","m","e","r">>)
                    THEN Put(newReqs0, "targetUsers", input)
                    ELSE newReqs0
        newReqs2 == IF includes(lower, <<"f","e","a","t","u","r","e">>) \/ includes(lower, <<"f","u","n","c","t","i","o","n">>)
                    THEN Put(newReqs1, "features",
                             featuresAppended(IF "features" \in DOMAIN newReqs1
                                              THEN newReqs1["features"] ELSE <<>>,
                                              input))
                    ELSE newReqs1
        newReqs3 == IF someIncluded(lower, timelineWords)
                    THEN Put(newReqs2, "timeline", input)
                    ELSE newReqs2
        newReqs4 == IF includes(input, <<"$">>) \/ includes(lower, <<"b","u","d","g","e","t">>)
                       \/ includes(lower, <<"c","o","s","t">>)
                    THEN Put(newReqs3, "budget", input)
                    ELSE newReqs3
    IN  newReqs4

\* The keys the extractor may add, in the order of its assignments.
extractorKeys == <<"targetUsers", "features", "timeline", "budget">>

\* The items of seq that satisfy keep, in order.
RECURSIVE selectKeys(_, _)
selectKeys(seq, keep) ==
    IF seq = <<>> THEN <<>>
    ELSE (IF Head(seq) \in keep THEN <<Head(seq)>> ELSE <<>>) \o selectKeys(Tail(seq), keep)

\* The elements of a sequence.
Range(seq) == {seq[i] : i \in 1..Len(seq)}

\* The insertion order of newReqs: the copy keeps the order of the prior
\* record, and each key the extractor adds comes after, in assignment order.
insertionOrder(priorOrder, newReqs) ==
    priorOrder \o selectKeys(extractorKeys, Keys(newReqs) \ Range(priorOrder))

\* updatedContext of generateAIResponse: the spread puts every field of the
\* analysis, projectType included, over the previous context; the guarded
\* assignment then stores analysis.projectType once more.
updatedContextOf(projectContext, analysis) ==
    LET updatedContext == Spread(projectContext, analysis)
    IN  IF Truthy(analysis.projectType) /\ ~Truthy(projectContext.projectType)
        THEN [updatedContext EXCEPT !["projectType"] = analysis.projectType]
        ELSE updatedContext

\* A mutation of advancePhase: no branch sets the phase.
advancePhaseNever(sessionPhase, updatedContext, updatedRequirements) == sessionPhase

\* A mutation of advancePhase: the phase is recomputed from the context.
advancePhaseRecomputed(sessionPhase, updatedContext, updatedRequirements) ==
    IF Truthy(updatedContext["projectType"])
    THEN IF Cardinality(Keys(updatedRequirements)) > 5 THEN "clarification" ELSE "discovery"
    ELSE "introduction"

\* A mutation of advancePhase: introduction is left after any successful turn.
advancePhaseUnconditional(sessionPhase, updatedContext, updatedRequirements) ==
    IF sessionPhase = "introduction"
    THEN "discovery"
    ELSE IF sessionPhase = "discovery" /\ Cardinality(Keys(updatedRequirements)) > 5
         THEN "clarification"
         ELSE sessionPhase

\* A mutation of advancePhase: the threshold is "at least 5" keys.
advancePhaseAtLeast5(sessionPhase, updatedContext, updatedRequirements) ==
    IF sessionPhase = "introduction" /\ Truthy(updatedContext["projectType"])
    THEN "discovery"
    ELSE IF sessionPhase = "discovery" /\ Cardinality(Keys(updatedRequirements)) >= 5
         THEN "clarification"
         ELSE sessionPhase

\* A mutation of advancePhase: a filled record closes the session.
advancePhaseToSummary(sessionPhase, updatedContext, updatedRequirements) ==
    IF sessionPhase = "introduction" /\ Truthy(updatedContext["projectType"])
    THEN "discovery"
    ELSE IF sessionPhase = "discovery" /\ Cardinality(Keys(updatedRequirements)) > 3
         THEN "summary"
         ELSE sessionPhase

\* A mutation of advancePhase: a filled record decides the phase first.
advancePhaseByRecord(sessionPhase, updatedContext, updatedRequirements) ==
    IF Cardinality(Keys(updatedRequirements)) > 4
    THEN "clarification"
    ELSE IF sessionPhase = "introduction" /\ Truthy(updatedContext["projectType"])
         THEN "discovery"
         ELSE sessionPhase

\* "Advance session phase" of generateAIResponse.
advancePhase(sessionPhase, updatedContext, updatedRequirements) ==
    IF sessionPhase = "introduction" /\ Truthy(updatedContext["projectType"])
    THEN "discovery"
    ELSE IF sessionPhase = "discovery" /\ Cardinality(Keys(updatedRequirements)) > 5
         THEN "clarification"
         ELSE sessionPhase

\* type SessionPhase, in its declared order.
SessionPhases == <<"introduction", "discovery", "clarification", "summary">>
PhaseIndex(p) == CHOOSE i \in 1..Len(SessionPhases) : SessionPhases[i] = p

(***************************************************************************)
(* Fixed texts                                                             *)
(***************************************************************************)

\* The fallback returned by the catch branch of generateAIResponse.
FallbackText == <<"I","'","m"," ","h","a","v","i","n","g"," ","t","r","o","u","b","l","e"," ","c","o","n","n","e","c","t","i","n","g"," ","t","o"," ","m","y"," ","b","r","a","i","n"," ","r","i","g","h","t"," ","n","o","w","."," ","P","l","e","a","s","e"," ","t","r","y"," ","a","g","a","i","n"," ","i","n"," ","a"," ","m","o","m","e","n","t",".">>

\* The content of the error message of handleSendMessage's catch branch.
ErrorText == <<"I"," ","a","p","o","l","o","g","i","z","e",","," ","b","u","t"," ","I"," ","e","n","c","o","u","n","t","e","r","e","d"," ","a","n"," ","e","r","r","o","r"," ","p","r","o","c","e","s","s","i","n","g"," ","y","o","u","r"," ","m","e","s","s","a","g","e","."," ","C","o","u","l","d"," ","y","o","u"," ","p","l","e","a","s","e"," ","t","r","y"," ","r","e","p","h","r","a","s","i","n","g"," ","y","o","u","r"," ","q","u","e","s","t","i","o","n","?">>

\* The initial greeting (its first sentence).
GreetingText == <<"H","e","l","l","o","!"," ","I","'","m"," ","y","o","u","r"," ","A","I"," ","R","e","q","u","i","r","e","m","e","n","t","s"," ","G","a","t","h","e","r","i","n","g"," ","A","s","s","i","s","t","a","n","t",".">>

\* The 500 body of the intermediary endpoint.
ServerErrorText == <<"F","a","i","l","e","d"," ","t","o"," ","g","e","n","e","r","a","t","e"," ","A","I"," ","r","e","s","p","o","n","s","e">>

(***************************************************************************)
(* Inputs                                                                  *)
(***************************************************************************)

UEmpty   == <<>>
UBlank   == <<" "," ">>
UHello   == <<"H","e","l","l","o"," ","t","h","e","r","e">>
UWebApp  == <<"I"," ","w","a","n","t"," ","a"," ","w","e","b"," ","a","p","p"," ","f","o","r"," ","s","e","l","l","i","n","g"," ","s","h","o","e","s">>
UBudget  == <<"M","y"," ","b","u","d","g","e","t"," ","i","s"," ","$","5","0","0","0"," ","a","n","d"," ","I"," ","n","e","e","d"," ","t","h","i","s"," ","b","y"," ","n","e","x","t"," ","m","o","n","t","h">>
UAll     == <<"W","e","b","s","i","t","e"," ","f","o","r"," ","U","s","e","r","s",":"," ","f","e","a","t","u","r","e","s",","," ","c","o","s","t",","," ","l","a","u","n","c","h">>
UMobile  == <<"A","n"," ","A","n","d","r","o","i","d"," ","a","p","p">>

\* What the user may type into the input box.
Utterances == {UEmpty, UBlank, UHello, UWebApp, UBudget, UAll, UMobile}

\* analyzeUserInput tabulated over the inputs of the model, so that the
\* analysis of an utterance is computed once.
analysisOf == [u \in Utterances |-> analyzeUserInput(u)]

\* What the upstream model may answer.
ModelTexts == {<<"W","h","o"," ","w","i","l","l"," ","u","s","e"," ","i","t","?">>}

(***************************************************************************)
(* State                                                                   *)
(***************************************************************************)

VARIABLES
    mounted,         \* the initial-greeting effect has run
    messages,        \* useState<Message[]>
    inputMessage,    \* useState('')
    isTyping,        \* useState(false)
    requirements,    \* useState<Requirements>({projectType: ''})
    projectContext,  \* useState<ProjectContext>({projectType: ''})
    sessionPhase,    \* useState<SessionPhase>('introduction')
    calls,           \* the gateway calls issued and not yet resolved, oldest first
    requirementsOrder, \* the keys of requirements in insertion order (Object.entries)
    now,             \* the clock read by new Date(): an index into Clock
    documents,       \* the documents produced by downloadDocument, with what they rendered
    fnOut            \* the last result of a function applied on its own

vars == <<mounted, messages, inputMessage, isTyping, requirements,
          projectContext, sessionPhase, calls, requirementsOrder,
          now, documents, fnOut>>

\* What a conversation step leaves alone.
outsideVars == <<now, documents, fnOut>>

Init ==
    /\ mounted = FALSE
    /\ messages = <<>>
    /\ inputMessage = <<>>
    /\ isTyping = FALSE
    /\ requirements = [k \in {"projectType"} |-> <<>>]
    /\ projectContext = [k \in {"projectType"} |-> <<>>]
    /\ sessionPhase = "introduction"
    /\ calls = <<>>
    /\ requirementsOrder = <<"projectType">>
    /\ now = 1
    /\ documents = {}
    /\ fnOut = [op |-> "none"]

\* Number of user messages in the history.
NumUserMessages == Cardinality({i \in 1..Len(messages) : messages[i].type = "user"})

\* The sequence s without its i-th element.
RemoveAt(s, i) == SubSeq(s, 1, i - 1) \o SubSeq(s, i + 1, Len(s))

(***************************************************************************)
(* Chat UI                                                                 *)
(***************************************************************************)

\* useEffect(..., []): the initial greeting replaces the empty history.
InitialGreeting ==
    /\ ~mounted
    /\ mounted' = TRUE
    /\ messages' = << [type |-> "assistant", content |-> GreetingText] >>
    /\ UNCHANGED <<inputMessage, isTyping, requirements, projectContext,
                   sessionPhase, calls, requirementsOrder>>
    /\ UNCHANGED outsideVars

\* A mutation of appendMessage: the history is replaced by the message.
replaceMessages(prev, message) == <<message>>

\* setMessages(prev => [...prev, message])
appendMessage(prev, message) == Append(prev, message)

\* A mutation of inputDisabled: the input stays enabled during a call.
inputNeverDisabled == FALSE

\* disabled={isTyping} of the input.
inputDisabled == isTyping

\* disabled={!inputMessage.trim() || isTyping} of the send button.
sendDisabled == trim(inputMessage) = <<>> \/ isTyping

\* onChange of the input: setInputMessage(e.target.value).
onChange(value) ==
    /\ mounted
    /\ ~inputDisabled
    /\ inputMessage' = value
    /\ UNCHANGED <<mounted, messages, isTyping, requirements, projectContext,
                   sessionPhase, calls, requirementsOrder>>
    /\ UNCHANGED outsideVars

\* A mutation of requestBody: the record is extracted before the call.
requestBodyExtracted(userInput, updatedContext, phase, reqs) ==
    [userInput |-> userInput, projectContext |-> updatedContext,
     sessionPhase |-> phase,
     requirements |-> extractRequirementsFromInput(userInput,
                          analyzeUserInput(userInput), reqs)]

\* The body of the fetch request of generateAIResponse.
requestBody(userInput, updatedContext, phase, reqs) ==
    [userInput |-> userInput, projectContext |-> updatedContext,
     sessionPhase |-> phase, requirements |-> reqs]

\* handleSendMessage up to the await of fetch inside generateAIResponse:
\* a blank input returns at once; otherwise the user message is appended,
\* the input cleared, isTyping set and the request issued.  The call keeps
\* the projectContext, sessionPhase and requirements of the render whose
\* closure runs it.
handleSendMessage ==
    /\ mounted
    /\ ~inputDisabled \/ ~sendDisabled
    /\ \/ /\ trim(inputMessage) = <<>>
          /\ UNCHANGED vars
       \/ /\ trim(inputMessage) # <<>>
          /\ NumUserMessages < MaxTurns
          /\ LET currentInput == inputMessage
                 analysis == analysisOf[currentInput]
                 updatedContext == updatedContextOf(projectContext, analysis)
             IN  /\ messages' = appendMessage(messages, [type |-> "user", content |-> currentInput])
                 /\ inputMessage' = <<>>
                 /\ isTyping' = TRUE
                 /\ calls' = Append(calls,
                       [userInput |-> currentInput,
                        projectContext |-> projectContext,
                        sessionPhase |-> sessionPhase,
                        requirements |-> requirements,
                        requirementsOrder |-> requirementsOrder,
                        request |-> requestBody(currentInput, updatedContext,
                                                sessionPhase, requirements),
                        net |-> "sent",
                        status |-> 0,
                        body |-> <<>>,
                        upstreamCalls |-> 0,
                        outcome |-> "pending",
                        answers |-> <<>>])
                 /\ UNCHANGED <<mounted, requirements, projectContext, sessionPhase,
                                requirementsOrder>>
                 /\ UNCHANGED outsideVars

(***************************************************************************)
(* Intermediary endpoint (server/index.js) and transport                   *)
(***************************************************************************)

\* A mutation of resJson: the answer is sent twice.
resJsonTwice(answers, status, body) ==
    Append(Append(answers, [status |-> status, body |-> body]),
           [status |-> status, body |-> body])

\* res.status(status).json(body): one answer is sent for the request.
resJson(answers, status, body) == Append(answers, [status |-> status, body |-> body])

\* app.post('/api/generate-response'): the handler reads the four fields of
\* the body, builds the prompt and awaits model.generateContent(prompt).
postGenerateResponse(i) ==
    /\ i \in 1..Len(calls)
    /\ calls[i].net = "sent"
    /\ calls' = [calls EXCEPT ![i].net = "upstream",
                              ![i].upstreamCalls = @ + 1]
    /\ UNCHANGED <<mounted, messages, inputMessage, isTyping, requirements,
                   projectContext, sessionPhase, requirementsOrder>>
    /\ UNCHANGED outsideVars

\* The upstream call resolves: res.json({ response: text }).
upstreamResolves(i, text) ==
    /\ i \in 1..Len(calls)
    /\ calls[i].net = "upstream"
    /\ calls' = [calls EXCEPT ![i].net = "replied",
                              ![i].status = 200,
                              ![i].body = [response |-> text],
                              ![i].outcome = "resolved",
                              ![i].answers = resJson(@, 200, [response |-> text])]
    /\ UNCHANGED <<mounted, messages, inputMessage, isTyping, requirements,
                   projectContext, sessionPhase, requirementsOrder>>
    /\ UNCHANGED outsideVars

\* Anything in the handler throws: res.status(500).json({ error: ... }).
upstreamThrows(i) ==
    /\ i \in 1..Len(calls)
    /\ calls[i].net = "upstream"
    /\ calls' = [calls EXCEPT ![i].net = "replied",
                              ![i].status = 500,
                              ![i].body = [error |-> ServerErrorText],
                              ![i].outcome = "thrown",
                              ![i].answers = resJson(@, 500, [error |-> ServerErrorText])]
    /\ UNCHANGED <<mounted, messages, inputMessage, isTyping, requirements,
                   projectContext, sessionPhase, requirementsOrder>>
    /\ UNCHANGED outsideVars

\* The fetch promise rejects: the request never reaches the endpoint.
fetchRejects(i) ==
    /\ i \in 1..Len(calls)
    /\ calls[i].net = "sent"
    /\ calls' = [calls EXCEPT ![i].net = "rejected"]
    /\ UNCHANGED <<mounted, messages, inputMessage, isTyping, requirements,
                   projectContext, sessionPhase, requirementsOrder>>
    /\ UNCHANGED outsideVars

(***************************************************************************)
(* The rest of the turn, after the await of fetch                          *)
(***************************************************************************)

\* response.ok
responseOk(status) == status \in 200..299

\* The try block got through: fetch resolved and response.ok held.
gatewaySucceeded(call) == call.net = "replied" /\ responseOk(call.status)

\* A mutation of catchBranch: the error is thrown on to the caller.
catchBranchRethrows == [kind |-> "throw", value |-> FallbackText]

\* catch (error) of generateAIResponse: the error is logged and the fixed
\* fallback is the value the promise resolves to.
catchBranch == [kind |-> "return", value |-> FallbackText]

\* What the promise of generateAIResponse settles to.
gatewayResult(call) ==
    IF gatewaySucceeded(call)
    THEN [kind |-> "return", value |-> call.body["response"]]
    ELSE catchBranch

\* The message handleSendMessage appends: the assistant message with the
\* text and the analysis of the input, or the error message of its catch.
assistantMessage(result, currentInput) ==
    IF result.kind = "return"
    THEN [type |-> "assistant", content |-> result.value,
          analysis |-> analysisOf[currentInput]]
    ELSE [type |-> "assistant", content |-> ErrorText]

\* A mutation of storedAfter: the setters run whether or not the call
\* succeeded.
storedAfterAlways(call, current, updated) == updated

\* setRequirements, setProjectContext and setSessionPhase stand after the
\* throw of a failed response: a failed call leaves the stored value.
storedAfter(call, current, updated) ==
    IF gatewaySucceeded(call) THEN updated ELSE current

\* A mutation of finallyBranch: isTyping is left as it is.
finallySkipped(typing) == typing

\* finally { setIsTyping(false) }
finallyBranch(typing) == FALSE

\* generateAIResponse from the resolution of fetch to its return, and the
\* continuation of handleSendMessage that appends the assistant message.
resolveTurn(i) ==
    /\ i \in 1..Len(calls)
    /\ calls[i].net \in {"replied", "rejected"}
    /\ LET call == calls[i]
           analysis == analysisOf[call.userInput]
           updatedContext == call.request.projectContext
           updatedRequirements ==
               extractRequirementsFromInput(call.userInput, analysis, call.requirements)
           nextPhase == advancePhase(call.sessionPhase, updatedContext, updatedRequirements)
       IN  /\ requirements' = storedAfter(call, requirements, updatedRequirements)
           /\ requirementsOrder' =
                 storedAfter(call, requirementsOrder,
                             insertionOrder(call.requirementsOrder, updatedRequirements))
           /\ projectContext' = storedAfter(call, projectContext, updatedContext)
           /\ sessionPhase' =
                 storedAfter(call, sessionPhase,
                             IF nextPhase # call.sessionPhase THEN nextPhase ELSE sessionPhase)
           /\ isTyping' = finallyBranch(isTyping)
           /\ messages' = appendMessage(messages,
                                 assistantMessage(gatewayResult(call), call.userInput))
           /\ calls' = RemoveAt(calls, i)
           /\ UNCHANGED <<mounted, inputMessage>>
           /\ UNCHANGED outsideVars

Next ==
    \/ InitialGreeting
    \/ \E value \in Utterances : onChange(value)
    \/ handleSendMessage
    \/ \E i \in 1..Len(calls) : postGenerateResponse(i)
    \/ \E i \in 1..Len(calls), text \in ModelTexts : upstreamResolves(i, text)
    \/ \E i \in 1..Len(calls) : upstreamThrows(i)
    \/ \E i \in 1..Len(calls) : fetchRejects(i)
    \/ \E i \in 1..Len(calls) : resolveTurn(i)

Spec == Init /\ [][Next]_vars

\* A call that was issued completes or fails: the request is delivered or
\* refused, the endpoint answers, and the continuation after the await runs.
Fairness ==
    /\ WF_vars(\E i \in 1..Len(calls) : postGenerateResponse(i) \/ fetchRejects(i))
    /\ WF_vars(\E i \in 1..Len(calls) :
                  \/ \E text \in ModelTexts : upstreamResolves(i, text)
                  \/ upstreamThrows(i))
    /\ WF_vars(\E i \in 1..Len(calls) : resolveTurn(i))

\* What is typed in the session whose progress is followed: a blank text
\* and three utterances.
LiveUtterances == {UBlank, UHello, UWebApp, UBudget}

NextLive ==
    \/ InitialGreeting
    \/ \E value \in LiveUtterances : onChange(value)
    \/ handleSendMessage
    \/ \E i \in 1..Len(calls) : postGenerateResponse(i)
    \/ \E i \in 1..Len(calls), text \in ModelTexts : upstreamResolves(i, text)
    \/ \E i \in 1..Len(calls) : upstreamThrows(i)
    \/ \E i \in 1..Len(calls) : fetchRejects(i)
    \/ \E i \in 1..Len(calls) : resolveTurn(i)

LiveSpec == Init /\ [][NextLive]_vars /\ Fairness


(***************************************************************************)
(* The functions applied on their own                                      *)
(*                                                                         *)
(* SpecFn starts from a state of the component drawn from FnStates, with   *)
(* an utterance drawn from FnUtterances in the input box, and applies the  *)
(* analyzer and the extractor to it.                                       *)
(***************************************************************************)

\* Bound on the number of fragments an utterance is put together from.
MaxFragments == 2

\* Pieces of text the utterances are put together from.
Fragments == { <<"w","e","b"," ","a","p","p"," ">>, <<"D","a","s","h","b","o","a","r","d"," ">>, <<"A","n","d","r","o","i","d"," ">>, <<"R","E","S","T"," ","a","p","i","."," ">>,
               <<"H","e","l","l","o"," ">>, <<"C","u","s","t","o","m","e","r","s"," ","n","e","e","d"," ","F","e","a","t","u","r","e","s"," ">>, <<"b","u","d","g","e","t"," ","$","5","0","0","0"," ">>,
               <<"b","y"," ","n","e","x","t"," ","m","o","n","t","h">>, <<"R","e","a","c","t"," ","o","n"," ","A","W","S"," ">> }

RECURSIVE joinAll(_)
joinAll(seq) == IF seq = <<>> THEN <<>> ELSE Head(seq) \o joinAll(Tail(seq))

\* The utterances given to the functions: the ones of the conversation and
\* every concatenation of at most MaxFragments fragments.
FnUtterances ==
    Utterances \cup
    { joinAll(ws) : ws \in UNION { [1..n -> Fragments] : n \in 0..MaxFragments } }

\* JavaScript true, as a value that is no string.
JsTrue == <<"true">>

\* typeof value === 'string'
IsString(value) == value \notin {Null, JsTrue}

\* The state the component has stored after one successful turn with
\* utterance u, starting from the stored state s.
afterTurn(s, u) ==
    LET analysis == analyzeUserInput(u)
        updatedContext == updatedContextOf(s.projectContext, analysis)
        updatedRequirements == extractRequirementsFromInput(u, analysis, s.requirements)
    IN  [requirements |-> updatedRequirements,
         requirementsOrder |-> insertionOrder(s.requirementsOrder, updatedRequirements),
         projectContext |-> updatedContext,
         sessionPhase |-> advancePhase(s.sessionPhase, updatedContext, updatedRequirements)]

\* The stored state of a new session.
initialStored ==
    [requirements |-> [k \in {"projectType"} |-> <<>>],
     requirementsOrder |-> <<"projectType">>,
     projectContext |-> [k \in {"projectType"} |-> <<>>],
     sessionPhase |-> "introduction"]

\* A stored state with fields set from outside the extractor: a target-user
\* text, the userInterface flag and a hosting text of white space only.
storedWithFlags ==
    LET s == afterTurn(initialStored, <<"w","e","b"," ","a","p","p"," ","R","e","a","c","t"," ","o","n"," ","A","W","S"," ">>)
        r1 == Put(s.requirements, "targetUsers", <<"s","h","o","p"," ","o","w","n","e","r","s">>)
        r2 == Put(r1, "userInterface", JsTrue)
        r3 == Put(r2, "hosting", <<" "," ">>)
    IN  [s EXCEPT !.requirements = r3,
                  !.requirementsOrder = <<"projectType", "targetUsers",
                                          "userInterface", "hosting">>]

\* The stored states the functions are applied to.
FnStates ==
    { initialStored,
      afterTurn(initialStored, UAll),
      afterTurn(initialStored, UBudget),
      storedWithFlags }

InitFn ==
    /\ mounted = TRUE
    /\ messages = << [type |-> "assistant", content |-> GreetingText] >>
    /\ inputMessage \in FnUtterances
    /\ isTyping = FALSE
    /\ \E s \in FnStates :
          /\ requirements = s.requirements
          /\ requirementsOrder = s.requirementsOrder
          /\ projectContext = s.projectContext
          /\ sessionPhase = s.sessionPhase
    /\ calls = <<>>
    /\ now = 1
    /\ documents = {}
    /\ fnOut = [op |-> "none"]

\* analyzeUserInput(inputMessage)
applyAnalyze ==
    /\ fnOut' = [op |-> "analyze", input |-> inputMessage,
                 analysis |-> analyzeUserInput(inputMessage)]
    /\ UNCHANGED <<mounted, messages, inputMessage, isTyping, requirements,
                   projectContext, sessionPhase, calls, requirementsOrder,
                   now, documents>>

\* extractRequirementsFromInput(inputMessage, analysis, requirements)
applyExtract ==
    /\ fnOut' = [op |-> "extract", input |-> inputMessage,
                 prior |-> requirements,
                 result |-> extractRequirementsFromInput(inputMessage,
                                analyzeUserInput(inputMessage), requirements)]
    /\ UNCHANGED <<mounted, messages, inputMessage, isTyping, requirements,
                   projectContext, sessionPhase, calls, requirementsOrder,
                   now, documents>>

NextFn ==
    \/ applyAnalyze
    \/ applyExtract

SpecFn == InitFn /\ [][NextFn]_vars

(***************************************************************************)
(* Document renderer                                                       *)
(***************************************************************************)

\* String.prototype.toUpperCase on one character.
UpperChar(c) ==
    CASE c = "a" -> "A" [] c = "b" -> "B" [] c = "c" -> "C" [] c = "d" -> "D"
      [] c = "e" -> "E" [] c = "f" -> "F" [] c = "g" -> "G" [] c = "h" -> "H"
      [] c = "i" -> "I" [] c = "j" -> "J" [] c = "k" -> "K" [] c = "l" -> "L"
      [] c = "m" -> "M" [] c = "n" -> "N" [] c = "o" -> "O" [] c = "p" -> "P"
      [] c = "q" -> "Q" [] c = "r" -> "R" [] c = "s" -> "S" [] c = "t" -> "T"
      [] c = "u" -> "U" [] c = "v" -> "V" [] c = "w" -> "W" [] c = "x" -> "X"
      [] c = "y" -> "Y" [] c = "z" -> "Z" [] OTHER -> c

\* The character class [A-Z].
IsUpper(c) == LowerChar(c) # c

\* s.charAt(0).toUpperCase() + s.slice(1)
capitalize(s) == IF s = <<>> THEN <<>> ELSE <<UpperChar(Head(s))>> \o Tail(s)

\* s.replace(/([A-Z])/g, ' $1'): a space before every capital letter.
RECURSIVE spaceBeforeCapitals(_)
spaceBeforeCapitals(s) ==
    IF s = <<>> THEN <<>>
    ELSE (IF IsUpper(Head(s)) THEN <<" ", Head(s)>> ELSE <<Head(s)>>)
         \o spaceBeforeCapitals(Tail(s))

\* key.charAt(0).toUpperCase() + key.slice(1).replace(/([A-Z])/g, ' $1')
headingOf(key) ==
    IF key = <<>> THEN <<>>
    ELSE <<UpperChar(Head(key))>> \o spaceBeforeCapitals(Tail(key))

\* The characters of the property names of type Requirements.
keyText ==
    [k \in {"projectType", "targetUsers", "features", "timeline", "budget",
            "userInterface", "deviceFeatures", "hosting", "performance",
            "additionalDetails"} |->
        CASE k = "projectType"       -> <<"p","r","o","j","e","c","t","T","y","p","e">>
          [] k = "targetUsers"       -> <<"t","a","r","g","e","t","U","s","e","r","s">>
          [] k = "features"          -> <<"f","e","a","t","u","r","e","s">>
          [] k = "timeline"          -> <<"t","i","m","e","l","i","n","e">>
          [] k = "budget"            -> <<"b","u","d","g","e","t">>
          [] k = "userInterface"     -> <<"u","s","e","r","I","n","t","e","r","f","a","c","e">>
          [] k = "deviceFeatures"    -> <<"d","e","v","i","c","e","F","e","a","t","u","r","e","s">>
          [] k = "hosting"           -> <<"h","o","s","t","i","n","g">>
          [] k = "performance"       -> <<"p","e","r","f","o","r","m","a","n","c","e">>
          [] k = "additionalDetails" -> <<"a","d","d","i","t","i","o","n","a","l","D","e","t","a","i","l","s">>]

\* The characters of a session phase.
phaseText ==
    [p \in {"introduction", "discovery", "clarification", "summary"} |->
        CASE p = "introduction"  -> <<"i","n","t","r","o","d","u","c","t","i","o","n">>
          [] p = "discovery"     -> <<"d","i","s","c","o","v","e","r","y">>
          [] p = "clarification" -> <<"c","l","a","r","i","f","i","c","a","t","i","o","n">>
          [] p = "summary"       -> <<"s","u","m","m","a","r","y">>]

\* `${value}` of a string or null.
templateText(value) == IF value = Null THEN <<"n","u","l","l">> ELSE value

\* array.join(', ')
RECURSIVE joinComma(_)
joinComma(items) ==
    IF items = <<>> THEN <<>>
    ELSE IF Len(items) = 1 THEN Head(items)
    ELSE Head(items) \o <<","," ">> \o joinComma(Tail(items))

\* The instants at which the clock is read: two on one day, one on the next.
Clock == << [date |-> <<"1","1","/","6","/","2","0","2","6">>, time |-> <<"9",":","0","0",":","0","0"," ","A","M">>, ms |-> <<"1","7","9","4","0","4","2","0","0","0","0","0","0">>],
            [date |-> <<"1","1","/","6","/","2","0","2","6">>, time |-> <<"5",":","0","0",":","0","0"," ","P","M">>, ms |-> <<"1","7","9","4","0","7","0","8","0","0","0","0","0">>],
            [date |-> <<"1","1","/","7","/","2","0","2","6">>, time |-> <<"9",":","0","0",":","0","0"," ","A","M">>, ms |-> <<"1","7","9","4","1","2","8","4","0","0","0","0","0">>] >>

\* A mutation of toLocaleDateString: the time of day is printed too.
toLocaleString(instant) == instant.date \o <<","," ">> \o instant.time

\* new Date().toLocaleDateString()
toLocaleDateString(instant) == instant.date

\* A mutation of hasSection: any truthy value gets a section.
hasSectionIfTruthy(value) == value \notin {Null, <<>>}

\* value && typeof value === 'string' && value.trim()
hasSection(value) ==
    /\ value \notin {Null, <<>>}
    /\ IsString(value)
    /\ trim(value) # <<>>

\* The section of one entry of the requirements record.
sectionOf(key, value) ==
    IF hasSection(value)
    THEN <<"#","#","#"," ">> \o headingOf(keyText[key]) \o <<"\n">> \o trim(value) \o <<"\n","\n">>
    ELSE <<>>

\* The forEach over Object.entries(requirements), in insertion order.
RECURSIVE sectionsOf(_, _)
sectionsOf(order, reqs) ==
    IF order = <<>> THEN <<>>
    ELSE sectionOf(Head(order), reqs[Head(order)]) \o sectionsOf(Tail(order), reqs)

\* contextClues.map(c => c.category)
categoriesOf(clues) == [i \in 1..Len(clues) |-> clues[i].category]

\* generateRequirementsDocument: it reads projectContext, requirements and
\* sessionPhase of the component, and the clock.
generateRequirementsDocument ==
    LET projectType == projectContext["projectType"]
        projectName == IF Truthy(projectType) THEN projectType ELSE <<"S","o","f","t","w","a","r","e"," ","P","r","o","j","e","c","t">>
    IN  <<"#"," ">> \o capitalize(projectName) \o <<" ","R","e","q","u","i","r","e","m","e","n","t","s"," ","D","o","c","u","m","e","n","t","\n","\n">>
        \o <<"*","*","G","e","n","e","r","a","t","e","d"," ","b","y"," ","A","I"," ","R","e","q","u","i","r","e","m","e","n","t","s"," ","A","s","s","i","s","t","a","n","t","*","*","\n">>
        \o <<"*","*","D","a","t","e",":","*","*"," ">> \o toLocaleDateString(Clock[now]) \o <<"\n","\n">>
        \o <<"#","#"," ","E","x","e","c","u","t","i","v","e"," ","S","u","m","m","a","r","y","\n">>
        \o <<"T","h","i","s"," ","d","o","c","u","m","e","n","t"," ","o","u","t","l","i","n","e","s"," ","t","h","e"," ","r","e","q","u","i","r","e","m","e","n","t","s"," ","f","o","r"," ","a"," ">> \o templateText(projectType)
        \o <<" ","b","a","s","e","d"," ","o","n"," ","i","n","t","e","l","l","i","g","e","n","t"," ","a","n","a","l","y","s","i","s"," ","o","f"," ","s","t","a","k","e","h","o","l","d","e","r"," ","c","o","n","v","e","r","s","a","t","i","o","n","s",".","\n","\n">>
        \o (IF Cardinality(Keys(requirements)) > 0
            THEN <<"#","#"," ","G","a","t","h","e","r","e","d"," ","R","e","q","u","i","r","e","m","e","n","t","s","\n","\n">>
                 \o sectionsOf(requirementsOrder, requirements)
            ELSE <<>>)
        \o (IF "technicalTerms" \in Keys(projectContext)
               /\ Len(projectContext["technicalTerms"]) > 0
            THEN <<"#","#"," ","T","e","c","h","n","i","c","a","l"," ","C","o","n","s","i","d","e","r","a","t","i","o","n","s","\n">>
                 \o <<"M","e","n","t","i","o","n","e","d"," ","t","e","c","h","n","o","l","o","g","i","e","s",":"," ">>
                 \o joinComma(projectContext["technicalTerms"]) \o <<"\n","\n">>
            ELSE <<>>)
        \o <<"#","#"," ","A","I"," ","A","n","a","l","y","s","i","s"," ","S","u","m","m","a","r","y","\n">>
        \o <<"-"," ","*","*","P","r","o","j","e","c","t"," ","T","y","p","e"," ","D","e","t","e","c","t","e","d",":","*","*"," ">>
        \o (IF Truthy(projectType) THEN projectType ELSE <<"N","o","t"," ","d","e","t","e","r","m","i","n","e","d">>) \o <<"\n">>
        \o <<"-"," ","*","*","K","e","y"," ","C","o","n","t","e","x","t"," ","C","l","u","e","s",":","*","*"," ">>
        \o (IF "contextClues" \in Keys(projectContext)
            THEN joinComma(categoriesOf(projectContext["contextClues"]))
            ELSE <<"N","o","n","e"," ","d","e","t","e","c","t","e","d">>) \o <<"\n">>
        \o <<"-"," ","*","*","C","o","n","v","e","r","s","a","t","i","o","n"," ","P","h","a","s","e",":","*","*"," ">> \o phaseText[sessionPhase] \o <<"\n","\n">>
        \o <<"#","#"," ","N","e","x","t"," ","S","t","e","p","s","\n">>
        \o <<"1","."," ","R","e","v","i","e","w"," ","a","n","d"," ","v","a","l","i","d","a","t","e"," ","t","h","e"," ","g","a","t","h","e","r","e","d"," ","r","e","q","u","i","r","e","m","e","n","t","s","\n">>
        \o <<"2","."," ","P","r","i","o","r","i","t","i","z","e"," ","f","e","a","t","u","r","e","s"," ","b","a","s","e","d"," ","o","n"," ","b","u","s","i","n","e","s","s"," ","v","a","l","u","e","\n">>
        \o <<"3","."," ","C","r","e","a","t","e"," ","d","e","t","a","i","l","e","d"," ","t","e","c","h","n","i","c","a","l"," ","s","p","e","c","i","f","i","c","a","t","i","o","n","s","\n">>
        \o <<"4","."," ","D","e","v","e","l","o","p"," ","p","r","o","j","e","c","t"," ","t","i","m","e","l","i","n","e"," ","a","n","d"," ","r","e","s","o","u","r","c","e"," ","a","l","l","o","c","a","t","i","o","n","\n">>

\* `ai-generated-requirements-${Date.now()}.md`
fileName(instant) == <<"a","i","-","g","e","n","e","r","a","t","e","d","-","r","e","q","u","i","r","e","m","e","n","t","s","-">> \o instant.ms \o <<".","m","d">>

\* disabled={Object.keys(requirements).length === 0} of the document button.
downloadDisabled == Cardinality(Keys(requirements)) = 0

\* downloadDocument: the document is rendered and handed to the browser as
\* a file.  documents keeps each file with the state it was rendered from.
downloadDocument ==
    /\ mounted
    /\ ~downloadDisabled
    /\ documents' = documents \cup
            { [name |-> fileName(Clock[now]),
               doc |-> generateRequirementsDocument,
               date |-> Clock[now].date,
               projectContext |-> projectContext,
               requirements |-> requirements,
               requirementsOrder |-> requirementsOrder,
               sessionPhase |-> sessionPhase] }
    /\ UNCHANGED <<mounted, messages, inputMessage, isTyping, requirements,
                   projectContext, sessionPhase, calls, requirementsOrder,
                   now, fnOut>>

\* Time passes.
clockTick ==
    /\ now < Len(Clock)
    /\ now' = now + 1
    /\ UNCHANGED <<mounted, messages, inputMessage, isTyping, requirements,
                   projectContext, sessionPhase, calls, requirementsOrder,
                   documents, fnOut>>

\* SpecDoc starts from a stored state drawn from FnStates; the user types,
\* time passes and documents are downloaded.
InitDoc ==
    /\ mounted = TRUE
    /\ messages = << [type |-> "assistant", content |-> GreetingText] >>
    /\ inputMessage = <<>>
    /\ isTyping = FALSE
    /\ \E s \in FnStates :
          /\ requirements = s.requirements
          /\ requirementsOrder = s.requirementsOrder
          /\ projectContext = s.projectContext
          /\ sessionPhase = s.sessionPhase
    /\ calls = <<>>
    /\ now = 1
    /\ documents = {}
    /\ fnOut = [op |-> "none"]

NextDoc ==
    \/ \E value \in Utterances : onChange(value)
    \/ downloadDocument
    \/ clockTick

SpecDoc == InitDoc /\ [][NextDoc]_vars

(***************************************************************************)
(* Properties                                                              *)
(***************************************************************************)

\* A step that ends a turn: a gateway call is resolved by the client.
TurnEnds == Len(calls') < Len(calls)

\* The last message of a non-empty history.
LastMessage(msgs) == msgs[Len(msgs)]

\* C1: over any sequence of turns, succeeding or failing, sessionPhase never
\* moves to an earlier phase in the order introduction < discovery <
\* clarification < summary.
C1_PhaseNeverRegresses ==
    [][PhaseIndex(sessionPhase) <= PhaseIndex(sessionPhase')]_vars

\* Two turns have been completed and the phase reached in them is kept.
C1_Witness ==
    /\ sessionPhase = "discovery"
    /\ Len(messages) = 5
    /\ ~isTyping

\* C2: once projectContext.projectType holds a non-empty project type it
\* holds that same value after every later turn, whatever the later
\* utterance's classification detects.
C2_FirstDetectedWins ==
    [][Truthy(projectContext["projectType"])
         => projectContext'["projectType"] = projectContext["projectType"]]_vars

\* C3: at no point are two gateway calls in flight at the same time.
C3_OneCallInFlight == Len(calls) <= 1

\* A second turn's call is in flight, after the first turn was resolved.
C3_Witness ==
    /\ Len(calls) = 1
    /\ NumUserMessages = 2
    /\ isTyping

\* C4: when the gateway call fails (the fetch rejects or the answer has a
\* non-success status), the assistant message appended for the turn carries
\* the fallback text, and the error message of handleSendMessage's catch
\* branch is never in the history.
C4_FailureYieldsFallback ==
    /\ [](\A i \in 1..Len(messages) : messages[i].content # ErrorText)
    /\ [][\A i \in 1..Len(calls) :
            (calls' = RemoveAt(calls, i) /\ ~gatewaySucceeded(calls[i]))
            => /\ Len(messages') = Len(messages) + 1
               /\ LastMessage(messages').type = "assistant"
               /\ LastMessage(messages').content = FallbackText]_vars

\* A failed turn has been answered with the fallback.
C4_Witness ==
    /\ ~isTyping
    /\ Len(messages) >= 3
    /\ LastMessage(messages).content = FallbackText

\* C5: every key of the requirements record after one turn is still a key
\* of it after every later turn.
C5_KeysNeverShrink ==
    [][Keys(requirements) \subseteq Keys(requirements')]_vars

\* A record with extracted keys has gone through one more successful turn.
C5_Witness ==
    /\ Keys(requirements) = {"projectType", "timeline", "budget"}
    /\ Len(messages) = 5
    /\ LastMessage(messages).content \in ModelTexts
    /\ messages[3].content \in ModelTexts

\* C6: a turn that starts in introduction ends in discovery if the project
\* context after the turn has a non-empty project type, and ends in
\* introduction otherwise.
C6_IntroductionToDiscovery ==
    [][(TurnEnds /\ sessionPhase = "introduction")
         => sessionPhase' = IF Truthy(projectContext'["projectType"])
                            THEN "discovery" ELSE "introduction"]_vars

\* The first turn detected a project type and moved the phase to discovery.
C6_Witness ==
    /\ Len(messages) = 3
    /\ ~isTyping
    /\ sessionPhase = "discovery"
    /\ Truthy(projectContext["projectType"])

\* C7: a turn that starts in discovery ends in clarification if the
\* requirements record after the turn has more than 5 keys, and ends in
\* discovery with 5 or fewer keys.
C7_DiscoveryToClarification ==
    [][(TurnEnds /\ sessionPhase = "discovery")
         => sessionPhase' = IF Cardinality(Keys(requirements')) > 5
                            THEN "clarification" ELSE "discovery"]_vars

\* A successful turn that started in discovery ended with exactly 5 keys.
C7_Witness ==
    /\ sessionPhase = "discovery"
    /\ Cardinality(Keys(requirements)) = 5
    /\ Len(messages) = 5
    /\ messages[2].content = UWebApp
    /\ messages[4].content = UAll
    /\ LastMessage(messages).content \in ModelTexts

\* C8: sessionPhase is summary in no reachable state.
C8_SummaryUnreachable == sessionPhase # "summary"

\* Every turn of the session has been used, with a full record, in discovery.
C8_Witness ==
    /\ NumUserMessages = MaxTurns
    /\ calls = <<>>
    /\ sessionPhase = "discovery"
    /\ Cardinality(Keys(requirements)) = 5

\* C9 as stated: the request of a turn carries the requirements record
\* already updated by the extractor with the turn's utterance, and the
\* project context already merged with the turn's classification.
C9_RequestCarriesUpdatedRecord ==
    \A i \in 1..Len(calls) :
        LET analysis == analysisOf[calls[i].userInput]
        IN  /\ calls[i].request.requirements =
                 extractRequirementsFromInput(calls[i].userInput, analysis, requirements)
            /\ calls[i].request.projectContext =
                 updatedContextOf(projectContext, analysis)

\* C9 amended: the order is classify -> call gateway -> extract.  While a
\* call is pending its request carries the project context merged with the
\* turn's classification and the requirements record as it was before the
\* turn, which is still the stored record; the record changes only in the
\* step that resolves a successful call, to the extractor's result.
C9_RequestCarriesPriorRecord ==
    /\ [](\A i \in 1..Len(calls) :
            /\ calls[i].request.userInput = calls[i].userInput
            /\ calls[i].request.requirements = requirements
            /\ calls[i].request.sessionPhase = sessionPhase
            /\ calls[i].request.projectContext =
                 updatedContextOf(projectContext, analysisOf[calls[i].userInput]))
    /\ [][requirements' # requirements
            => \E i \in 1..Len(calls) :
                 /\ calls' = RemoveAt(calls, i)
                 /\ gatewaySucceeded(calls[i])
                 /\ requirements' =
                      extractRequirementsFromInput(calls[i].userInput,
                          analysisOf[calls[i].userInput], requirements)]_vars

\* A call is pending for an utterance that triggers the extractor and the
\* classifier, and the stored record does not yet have what it extracts.
C9_Witness ==
    /\ Len(calls) = 1
    /\ calls[1].userInput = UAll
    /\ calls[1].net = "upstream"
    /\ Keys(requirements) = {"projectType"}
    /\ calls[1].request.projectContext["projectType"] = <<"w","e","b"," ","a","p","p","l","i","c","a","t","i","o","n">>

\* C10: the message history only grows at its end: every step keeps the
\* messages already appended, in place and unchanged.
C10_HistoryAppendOnly ==
    [][/\ Len(messages') >= Len(messages)
       /\ SubSeq(messages', 1, Len(messages)) = messages]_vars

\* A third user message has been appended after two completed turns.
C10_Witness ==
    /\ Len(messages) = 6
    /\ LastMessage(messages).type = "user"
    /\ messages[1].content = GreetingText

\* s is an initial part of t.
IsPrefix(s, t) == Len(s) <= Len(t) /\ SubSeq(t, 1, Len(s)) = s

\* C11: a technical term or a context clue that is in the project context
\* is still in it after every later step, the latest classification being
\* merged into what was known.
C11_ContextAccumulates ==
    [][\A key \in {"technicalTerms", "contextClues"} :
          key \in Keys(projectContext)
          => /\ key \in Keys(projectContext')
             /\ Range(projectContext[key]) \subseteq Range(projectContext'[key])]_vars

\* C15: the features field only grows: its value after a step has its
\* value before the step as a prefix, and a successful turn whose utterance
\* contains "feature" or "function" appends a space and the utterance.
C15_FeaturesOnlyGrow ==
    /\ [][("features" \in Keys(requirements))
            => /\ "features" \in Keys(requirements')
               /\ IsPrefix(requirements["features"], requirements'["features"])]_vars
    /\ [][\A i \in 1..Len(calls) :
            (calls' = RemoveAt(calls, i) /\ gatewaySucceeded(calls[i])
               /\ (\/ includes(toLowerCase(calls[i].userInput), <<"f","e","a","t","u","r","e">>)
                   \/ includes(toLowerCase(calls[i].userInput), <<"f","u","n","c","t","i","o","n">>)))
            => requirements'["features"] =
                 (IF "features" \in Keys(requirements)
                  THEN requirements["features"] ELSE <<>>)
                 \o <<" ">> \o calls[i].userInput]_vars

\* Two successful turns have each appended their utterance to features.
C15_Witness ==
    /\ "features" \in Keys(requirements)
    /\ requirements["features"] = <<" ">> \o UAll \o <<" ">> \o UAll

\* C19: the phase changes only in the step that ends a turn, and by at most
\* one step: a turn that starts in introduction ends in introduction or
\* discovery, never in clarification.
C19_OneStepPerTurn ==
    [][/\ sessionPhase' # sessionPhase => TurnEnds
       /\ PhaseIndex(sessionPhase') <= PhaseIndex(sessionPhase) + 1]_vars

\* The first turn filled the record to its 5 keys and the phase moved from
\* introduction to discovery only.
C19_Witness ==
    /\ Len(messages) = 3
    /\ messages[2].content = UAll
    /\ LastMessage(messages).content \in ModelTexts
    /\ Cardinality(Keys(requirements)) = 5
    /\ sessionPhase = "discovery"

\* The entries of projectTypes with a keyword in the lower-cased utterance.
matchingTypes(input) ==
    {i \in 1..Len(projectTypes) :
        \E j \in 1..Len(projectTypes[i].keywords) :
            includes(toLowerCase(input), projectTypes[i].keywords[j])}

\* Every keyword of the knowledge base and every technical term.
knownKeywords ==
    UNION {Range(projectTypes[i].keywords) : i \in 1..Len(projectTypes)}
    \cup UNION {Range(contextClueWords[i].keywords) : i \in 1..Len(contextClueWords)}
    \cup Range(techTerms)

\* C12: for an utterance with project-type keywords of exactly one
\* category, analyzeUserInput returns that category as projectType.
C12_SingleCategoryReported ==
    fnOut.op = "analyze"
    => \A i \in 1..Len(projectTypes) :
          matchingTypes(fnOut.input) = {i}
          => fnOut.analysis.projectType = projectTypes[i].type

\* The analysis of "I want a web app for selling shoes".
C12_Witness ==
    /\ fnOut.op = "analyze"
    /\ fnOut.input = UWebApp
    /\ matchingTypes(fnOut.input) = {1}
    /\ fnOut.analysis.projectType = <<"w","e","b"," ","a","p","p","l","i","c","a","t","i","o","n">>

\* C13: for an utterance with none of the known keywords, analyzeUserInput
\* returns projectType null, no context clues and no technical terms.
C13_NoKeywordEmptyClassification ==
    (/\ fnOut.op = "analyze"
     /\ \A k \in knownKeywords : ~includes(toLowerCase(fnOut.input), k))
    => /\ fnOut.analysis.projectType = Null
       /\ fnOut.analysis.contextClues = <<>>
       /\ fnOut.analysis.technicalTerms = <<>>

\* The analysis of "Hello there".
C13_Witness ==
    /\ fnOut.op = "analyze"
    /\ fnOut.input = UHello
    /\ \A k \in knownKeywords : ~includes(toLowerCase(fnOut.input), k)
    /\ fnOut.analysis.projectType = Null

\* The keys whose trigger words occur in the utterance.
triggeredKeys(input) ==
    LET lower == toLowerCase(input)
    IN  {k \in {"targetUsers", "features", "timeline", "budget"} :
           \/ k = "targetUsers"
              /\ \E w \in {<<"u","s","e","r">>, <<"c","u","s","t","o","m","e","r">>} : includes(lower, w)
           \/ k = "features"
              /\ \E w \in {<<"f","e","a","t","u","r","e">>, <<"f","u","n","c","t","i","o","n">>} : includes(lower, w)
           \/ k = "timeline"
              /\ \E w \in {<<"w","e","e","k">>, <<"m","o","n","t","h">>, <<"y","e","a","r">>, <<"d","e","a","d","l","i","n","e">>, <<"l","a","u","n","c","h">>} :
                    includes(lower, w)
           \/ k = "budget"
              /\ (includes(input, <<"$">>)
                  \/ \E w \in {<<"b","u","d","g","e","t">>, <<"c","o","s","t">>} : includes(lower, w))}

\* C14: after extractRequirementsFromInput, each of targetUsers, timeline
\* and budget whose trigger words occur in the utterance equals the whole
\* utterance, whatever its prior value.
C14_OverwriteFields ==
    fnOut.op = "extract"
    => \A k \in triggeredKeys(fnOut.input) \cap {"targetUsers", "timeline", "budget"} :
          /\ k \in Keys(fnOut.result)
          /\ fnOut.result[k] = fnOut.input

\* "My budget is $5000 and I need this by next month" on a record whose
\* budget and timeline held another utterance.
C14_Witness ==
    /\ fnOut.op = "extract"
    /\ fnOut.input = UBudget
    /\ {"budget", "timeline"} \subseteq Keys(fnOut.prior)
    /\ fnOut.prior["budget"] = UAll
    /\ fnOut.prior["timeline"] = UAll
    /\ fnOut.result["budget"] = UBudget
    /\ fnOut.result["timeline"] = UBudget

\* The largest element of a non-empty set of numbers.
Max(S) == CHOOSE x \in S : \A y \in S : y <= x

\* C18: for an utterance with project-type keywords of several categories,
\* analyzeUserInput reports the last matching category in enumeration order.
C18_LastMatchingCategory ==
    (fnOut.op = "analyze" /\ Cardinality(matchingTypes(fnOut.input)) >= 2)
    => fnOut.analysis.projectType = projectTypes[Max(matchingTypes(fnOut.input))].type

\* "Dashboard " is listed under web application and data/analytics.
C18_Witness ==
    /\ fnOut.op = "analyze"
    /\ fnOut.input = <<"D","a","s","h","b","o","a","r","d"," ">>
    /\ matchingTypes(fnOut.input) = {1, 4}
    /\ fnOut.analysis.projectType = <<"d","a","t","a","/","a","n","a","l","y","t","i","c","s">>

\* C20: one pass of the extractor changes only the fields whose trigger
\* words occur in the utterance: every other key of the prior record has
\* the same value in the result, and no other key is added.
C20_ExtractorFrame ==
    fnOut.op = "extract"
    => /\ \A k \in Keys(fnOut.prior) \ triggeredKeys(fnOut.input) :
             /\ k \in Keys(fnOut.result)
             /\ fnOut.result[k] = fnOut.prior[k]
       /\ Keys(fnOut.result) = Keys(fnOut.prior) \cup triggeredKeys(fnOut.input)

\* A pass that sets targetUsers and features on a record with the
\* userInterface flag and a hosting text.
C20_Witness ==
    /\ fnOut.op = "extract"
    /\ fnOut.input = <<"C","u","s","t","o","m","e","r","s"," ","n","e","e","d"," ","F","e","a","t","u","r","e","s"," ">>
    /\ fnOut.prior = storedWithFlags.requirements
    /\ fnOut.result["userInterface"] = JsTrue
    /\ fnOut.result["hosting"] = <<" "," ">>
    /\ fnOut.result["targetUsers"] = fnOut.input

\* The headings the fields are expected under.
expectedHeading ==
    [k \in DOMAIN keyText |->
        CASE k = "projectType"       -> <<"P","r","o","j","e","c","t"," ","T","y","p","e">>
          [] k = "targetUsers"       -> <<"T","a","r","g","e","t"," ","U","s","e","r","s">>
          [] k = "features"          -> <<"F","e","a","t","u","r","e","s">>
          [] k = "timeline"          -> <<"T","i","m","e","l","i","n","e">>
          [] k = "budget"            -> <<"B","u","d","g","e","t">>
          [] k = "userInterface"     -> <<"U","s","e","r"," ","I","n","t","e","r","f","a","c","e">>
          [] k = "deviceFeatures"    -> <<"D","e","v","i","c","e"," ","F","e","a","t","u","r","e","s">>
          [] k = "hosting"           -> <<"H","o","s","t","i","n","g">>
          [] k = "performance"       -> <<"P","e","r","f","o","r","m","a","n","c","e">>
          [] k = "additionalDetails" -> <<"A","d","d","i","t","i","o","n","a","l"," ","D","e","t","a","i","l","s">>]

\* The number of places at which k occurs in s.
occurrences(s, k) ==
    Cardinality({i \in 1..(Len(s) - Len(k) + 1) :
                    \A j \in 1..Len(k) : s[i + j - 1] = k[j]})

\* The fields of a record that hold a string that is not blank.
shownFields(reqs) ==
    {k \in Keys(reqs) : IsString(reqs[k]) /\ trim(reqs[k]) # <<>>}

\* C16: the document has exactly one section per requirement field whose
\* value is a string that is not empty after trimming, headed by the
\* readable field name and followed by the trimmed value, and no section
\* for any other field.
C16_OneSectionPerField ==
    \A d \in documents :
        /\ \A k \in shownFields(d.requirements) :
              occurrences(d.doc, <<"#","#","#"," ">> \o expectedHeading[k] \o <<"\n">>
                                 \o trim(d.requirements[k]) \o <<"\n","\n">>) = 1
        /\ occurrences(d.doc, <<"#","#","#"," ">>) = Cardinality(shownFields(d.requirements))

\* A document of the record {targetUsers: "shop owners", ...} with project
\* type web application: one section, none for the flag, the blank hosting
\* text or the empty projectType.
C16_Witness ==
    \E d \in documents :
        /\ d.requirements = storedWithFlags.requirements
        /\ d.projectContext["projectType"] = <<"w","e","b"," ","a","p","p","l","i","c","a","t","i","o","n">>
        /\ shownFields(d.requirements) = {"targetUsers"}
        /\ includes(d.doc, <<"#","#","#"," ","T","a","r","g","e","t"," ","U","s","e","r","s","\n","s","h","o","p"," ","o","w","n","e","r","s","\n","\n">>)

\* Two documents were rendered from the same three inputs.
sameInputs(a, b) ==
    /\ a.projectContext = b.projectContext
    /\ a.requirements = b.requirements
    /\ a.requirementsOrder = b.requirementsOrder
    /\ a.sessionPhase = b.sessionPhase

\* C17 as stated: two renders with the same project context, requirements
\* record and session phase produce the same text.
C17_SameInputsSameText ==
    \A a, b \in documents : sameInputs(a, b) => a.doc = b.doc

\* C17 amended: two renders with the same project context, requirements
\* record and session phase on the same date produce the same text,
\* whatever else differs (the time of day, the text in the input box).
C17_SameInputsAndDateSameText ==
    \A a, b \in documents : (sameInputs(a, b) /\ a.date = b.date) => a.doc = b.doc

\* Two files were produced at different times of one day from the same
\* inputs, and a third on the next day.
C17_Witness ==
    \E a, b, c \in documents :
        /\ a.name # b.name
        /\ sameInputs(a, b) /\ a.date = b.date /\ a.doc = b.doc
        /\ sameInputs(a, c) /\ a.date # c.date

\* C21: whenever isTyping is true, the turn's call resolves and isTyping is
\* false again, on the success path and on the failure path, given that a
\* call that was issued completes or fails.
C21_TypingEnds == isTyping ~> ~isTyping

\* One turn ended with the gateway's text and one with the fallback, and the
\* input is enabled.
C21_Witness ==
    /\ ~isTyping
    /\ calls = <<>>
    /\ \E i, j \in 1..Len(messages) :
          /\ messages[i].type = "assistant" /\ messages[i].content \in ModelTexts
          /\ messages[j].type = "assistant" /\ messages[j].content = FallbackText

\* C22: the endpoint answers a request at most once and calls the upstream
\* model at most once; a request it has answered has exactly one answer,
\* {response: text} when the upstream call resolved, and status 500 with
\* {error: ...} when the handler threw.
C22_OneAnswerPerRequest ==
    \A i \in 1..Len(calls) :
        LET c == calls[i]
        IN  /\ c.upstreamCalls <= 1
            /\ Len(c.answers) <= 1
            /\ c.net \in {"sent", "upstream", "rejected"} => c.answers = <<>>
            /\ c.net = "replied" => Len(c.answers) = 1 /\ c.outcome # "pending"
            /\ c.outcome = "resolved"
               => /\ c.upstreamCalls = 1
                  /\ \E text \in ModelTexts :
                        c.answers = << [status |-> 200, body |-> [response |-> text]] >>
            /\ c.outcome = "thrown"
               => c.answers = << [status |-> 500, body |-> [error |-> ServerErrorText]] >>

\* The endpoint has answered one request with a text and now a second one
\* with status 500.
C22_Witness ==
    /\ Len(calls) = 1
    /\ calls[1].net = "replied"
    /\ calls[1].outcome = "thrown"
    /\ calls[1].answers[1].status = 500
    /\ \E i \in 1..Len(messages) : messages[i].content \in ModelTexts

\* The call's fetch rejected or its answer has a non-success status.
callFailed(call) ==
    \/ call.net = "rejected"
    \/ call.net = "replied" /\ call.status \notin 200..299

\* C23: the step that ends a turn whose call failed leaves the requirements
\* record, the project context and sessionPhase as they were, equal to the
\* values the turn started with; only the message history grows.
C23_FailedTurnStoresNothing ==
    [][\A i \in 1..Len(calls) :
          (calls' = RemoveAt(calls, i) /\ callFailed(calls[i]))
          => /\ requirements' = requirements
             /\ requirements' = calls[i].requirements
             /\ projectContext' = projectContext
             /\ projectContext' = calls[i].projectContext
             /\ sessionPhase' = sessionPhase
             /\ sessionPhase' = calls[i].sessionPhase
             /\ Len(messages') = Len(messages) + 1]_vars

\* "I want a web app for selling shoes" was sent first and its call failed:
\* no project type is stored and the session is still in introduction.
C23_Witness ==
    /\ calls = <<>>
    /\ Len(messages) = 3
    /\ messages[2].content = UWebApp
    /\ messages[3].content = FallbackText
    /\ projectContext["projectType"] = <<>>
    /\ Keys(requirements) = {"projectType"}
    /\ sessionPhase = "introduction"

\* C24: in every reachable state the keys of the requirements record are
\* among projectType, targetUsers, features, timeline and budget, their
\* number is between 1 and 5, and sessionPhase is not clarification.
C24_AtMostFiveKeys ==
    /\ Keys(requirements) \subseteq
          {"projectType", "targetUsers", "features", "timeline", "budget"}
    /\ Cardinality(Keys(requirements)) \in 1..5
    /\ sessionPhase # "clarification"

\* The record holds all five keys after a later successful turn in
\* discovery.
C24_Witness ==
    /\ Cardinality(Keys(requirements)) = 5
    /\ sessionPhase = "discovery"
    /\ calls = <<>>
    /\ Len(messages) >= 5
    /\ LastMessage(messages).content \in ModelTexts
    /\ messages[Len(messages) - 1].content # UAll

\* The text is empty or has only white space.
IsBlank(s) == \A i \in 1..Len(s) : IsSpace(s[i])

\* C25: the history is the greeting followed by user and assistant messages
\* in strict alternation, each user message non-blank and each assistant
\* message after it the gateway's text or the fallback; a call is in flight
\* exactly when the last message is the user's; and no step taken with a
\* blank input appends a user message or issues a call.
C25_StrictAlternation ==
    /\ [](mounted
           => /\ Len(messages) >= 1
              /\ messages[1] = [type |-> "assistant", content |-> GreetingText]
              /\ \A i \in 1..Len(messages) :
                    messages[i].type = IF i % 2 = 1 THEN "assistant" ELSE "user"
              /\ \A i \in 2..Len(messages) :
                    IF i % 2 = 0
                    THEN ~IsBlank(messages[i].content)
                    ELSE messages[i].content \in ModelTexts \cup {FallbackText}
              /\ (Len(messages) % 2 = 0) <=> (Len(calls) = 1)
              /\ Len(calls) <= 1)
    /\ [][IsBlank(inputMessage)
           => /\ Len(calls') <= Len(calls)
              /\ Len(messages') > Len(messages)
                 => LastMessage(messages').type = "assistant"]_vars

\* Two turns are over, one answered by the gateway and one by the fallback,
\* and a blank text is in the input box.
C25_Witness ==
    /\ Len(messages) = 5
    /\ calls = <<>>
    /\ inputMessage = UBlank
    /\ ~sendDisabled \/ ~inputDisabled
    /\ {messages[3].content, messages[5].content} = ModelTexts \cup {FallbackText}

\* C26: between turns, a session in introduction holds no project type in
\* its context: the value is the empty string or null.
C26_IntroductionHasNoType ==
    (calls = <<>> /\ ~isTyping /\ sessionPhase = "introduction")
    => projectContext["projectType"] \in {<<>>, Null}

\* A successful turn without a project-type keyword stored null and left
\* the session in introduction.
C26_Witness ==
    /\ calls = <<>>
    /\ ~isTyping
    /\ sessionPhase = "introduction"
    /\ projectContext["projectType"] = Null
    /\ LastMessage(messages).content \in ModelTexts

====
